---- MODULE Spec2Model ----
(***************************************************************************)
(* Model of the chess opponent's decision core: the static evaluator       *)
(* (services/evaluation), the move-ordering heuristic and the alpha-beta   *)
(* searcher (services/chessAI), running against a model of the rules       *)
(* engine (chess.js) they call into.                                       *)
(*                                                                         *)
(* The board view is the 8x8 array of game.board(): square index           *)
(* i = r*8 + c, row r = 0 is rank 8, row 7 is rank 1, column 0 is file a.  *)
(***************************************************************************)
EXTENDS Integers, Sequences, FiniteSets, TLC

\* ------------------------------------------------------------------------
\* Pieces and board squares
\* ------------------------------------------------------------------------

\* An empty square of the board view (null in game.board()).
Empty == [type |-> "-", color |-> "-"]

Pc(t, c) == [type |-> t, color |-> c]

Squares == 0..63

Row(i) == i \div 8
Col(i) == i % 8
Sq(r, c) == r * 8 + c

Other(c) == IF c = "w" THEN "b" ELSE "w"

\* ------------------------------------------------------------------------
\* services/evaluation: weights, bonuses and piece-square tables
\* ------------------------------------------------------------------------

PIECE_VALUES == [p |-> 100, n |-> 320, b |-> 330, r |-> 500, q |-> 900, k |-> 20000]

BISHOP_PAIR_BONUS == 50
ROOK_OPEN_FILE_BONUS == 25
ROOK_SEMI_OPEN_FILE_BONUS == 10
KING_SHIELD_BONUS == 20
KING_OPEN_FILE_PENALTY == 25
MOBILITY_WEIGHT == 5

PAWN_PST == <<
  0,  0,  0,  0,  0,  0,  0,  0,
  50, 50, 50, 50, 50, 50, 50, 50,
  10, 10, 20, 30, 30, 20, 10, 10,
  5,  5, 10, 25, 25, 10,  5,  5,
  0,  0,  0, 20, 20,  0,  0,  0,
  5, -5,-10,  0,  0,-10, -5,  5,
  5, 10, 10,-20,-20, 10, 10,  5,
  0,  0,  0,  0,  0,  0,  0,  0 >>

KNIGHT_PST == <<
  -50,-40,-30,-30,-30,-30,-40,-50,
  -40,-20,  0,  0,  0,  0,-20,-40,
  -30,  0, 10, 15, 15, 10,  0,-30,
  -30,  5, 15, 20, 20, 15,  5,-30,
  -30,  0, 15, 20, 20, 15,  0,-30,
  -30,  5, 10, 15, 15, 10,  5,-30,
  -40,-20,  0,  5,  5,  0,-20,-40,
  -50,-40,-30,-30,-30,-30,-40,-50 >>

BISHOP_PST == <<
  -20,-10,-10,-10,-10,-10,-10,-20,
  -10,  0,  0,  0,  0,  0,  0,-10,
  -10,  0,  5, 10, 10,  5,  0,-10,
  -10,  5,  5, 10, 10,  5,  5,-10,
  -10,  0, 10, 10, 10, 10,  0,-10,
  -10, 10, 10, 10, 10, 10, 10,-10,
  -10,  5,  0,  0,  0,  0,  5,-10,
  -20,-10,-10,-10,-10,-10,-10,-20 >>

ROOK_PST == <<
  0,  0,  0,  0,  0,  0,  0,  0,
  5, 10, 10, 10, 10, 10, 10,  5,
  -5,  0,  0,  0,  0,  0,  0, -5,
  -5,  0,  0,  0,  0,  0,  0, -5,
  -5,  0,  0,  0,  0,  0,  0, -5,
  -5,  0,  0,  0,  0,  0,  0, -5,
  -5,  0,  0,  0,  0,  0,  0, -5,
  0,  0,  0,  5,  5,  0,  0,  0 >>

QUEEN_PST == <<
  -20,-10,-10, -5, -5,-10,-10,-20,
  -10,  0,  0,  0,  0,  0,  0,-10,
  -10,  0,  5,  5,  5,  5,  0,-10,
  -5,  0,  5,  5,  5,  5,  0, -5,
  0,  0,  5,  5,  5,  5,  0, -5,
  -10,  5,  5,  5,  5,  5,  0,-10,
  -10,  0,  5,  0,  0,  0,  0,-10,
  -20,-10,-10, -5, -5,-10,-10,-20 >>

KING_PST == <<
  -30,-40,-40,-50,-50,-40,-40,-30,
  -30,-40,-40,-50,-50,-40,-40,-30,
  -30,-40,-40,-50,-50,-40,-40,-30,
  -30,-40,-40,-50,-50,-40,-40,-30,
  -20,-30,-30,-40,-40,-30,-30,-20,
  -10,-20,-20,-20,-20,-20,-20,-10,
   20, 20,  0,  0,  0,  0, 20, 20,
   20, 30, 10,  0,  0, 10, 30, 20 >>

PSTS == [p |-> PAWN_PST, n |-> KNIGHT_PST, b |-> BISHOP_PST,
         r |-> ROOK_PST, q |-> QUEEN_PST, k |-> KING_PST]

\* PSTS[type][index], the tables being 0-indexed arrays in the source.
PstAt(type, index) == PSTS[type][index + 1]

\* ------------------------------------------------------------------------
\* services/evaluation: helpers
\* ------------------------------------------------------------------------

isValidSquare(r, c) == r >= 0 /\ r < 8 /\ c >= 0 /\ c < 8

knightDirs == << <<2,1>>, <<2,-1>>, <<-2,1>>, <<-2,-1>>, <<1,2>>, <<1,-2>>, <<-1,2>>, <<-1,-2>> >>
rookDirs == << <<1,0>>, <<-1,0>>, <<0,1>>, <<0,-1>> >>
bishopDirs == << <<1,1>>, <<1,-1>>, <<-1,1>>, <<-1,-1>> >>

\* The while loop of getPieceMobility for one direction of a sliding piece,
\* entered at square (nr, nc).
RECURSIVE SlideCount(_, _, _, _, _, _)
SlideCount(board, nr, nc, dr, dc, color) ==
  IF ~isValidSquare(nr, nc) THEN 0
  ELSE LET target == board[Sq(nr, nc)] IN
       IF target = Empty THEN 1 + SlideCount(board, nr + dr, nc + dc, dr, dc, color)
       ELSE IF target.color # color THEN 1 ELSE 0

\* Fault variant of DirMobility: a knight's target square counts even when
\* a friendly piece stands on it.
DirMobilityAnyTarget(board, r, c, isSliding, dir, color) ==
  LET nr == r + dir[1]
      nc == c + dir[2]
  IN IF ~isSliding
     THEN IF isValidSquare(nr, nc) THEN 1 ELSE 0
     ELSE SlideCount(board, nr, nc, dir[1], dir[2], color)

\* One iteration of the for loop over dirs in getPieceMobility.
DirMobility(board, r, c, isSliding, dir, color) ==
  LET nr == r + dir[1]
      nc == c + dir[2]
  IN IF ~isSliding
     THEN IF isValidSquare(nr, nc)
          THEN LET target == board[Sq(nr, nc)] IN
               IF target = Empty \/ target.color # color THEN 1 ELSE 0
          ELSE 0
     ELSE SlideCount(board, nr, nc, dir[1], dir[2], color)

RECURSIVE SumDirs(_, _, _, _, _, _, _)
SumDirs(board, r, c, isSliding, dirs, k, color) ==
  IF k > Len(dirs) THEN 0
  ELSE DirMobility(board, r, c, isSliding, dirs[k], color)
       + SumDirs(board, r, c, isSliding, dirs, k + 1, color)

getPieceMobility(board, r, c, type, color) ==
  LET dirs == IF type = "n" THEN knightDirs
              ELSE IF type = "r" THEN rookDirs
              ELSE IF type = "b" THEN bishopDirs
              ELSE IF type = "q" THEN rookDirs \o bishopDirs
              ELSE << >>
  IN IF type \notin {"n", "r", "b", "q"} THEN 0
     ELSE SumDirs(board, r, c, type # "n", dirs, 1, color)

\* Fault variant of ShieldFile: any friendly piece counts as a shield.
ShieldFileAnyPiece(board, shieldRank, f, isWhite) ==
  IF f >= 0 /\ f < 8 /\ isValidSquare(shieldRank, f)
  THEN LET piece == board[Sq(shieldRank, f)] IN
       IF piece # Empty /\ piece.color = (IF isWhite THEN "w" ELSE "b")
       THEN KING_SHIELD_BONUS
       ELSE IF piece = Empty THEN -KING_OPEN_FILE_PENALTY
       ELSE 0
  ELSE 0

\* The body of the loop over files f of evaluateKingSafety.
ShieldFile(board, shieldRank, f, isWhite) ==
  IF f >= 0 /\ f < 8 /\ isValidSquare(shieldRank, f)
  THEN LET piece == board[Sq(shieldRank, f)] IN
       IF piece # Empty /\ piece.type = "p" /\ piece.color = (IF isWhite THEN "w" ELSE "b")
       THEN KING_SHIELD_BONUS
       ELSE IF piece = Empty THEN -KING_OPEN_FILE_PENALTY
       ELSE 0
  ELSE 0

\* Fault variant of evaluateKingSafety: row 7 taken as the back rank of
\* both colours.
evaluateKingSafetyRow7(board, r, c, isWhite) ==
  LET shieldRank == IF isWhite THEN r - 1 ELSE r + 1
  IN IF r = 7
     THEN ShieldFile(board, shieldRank, c - 1, isWhite)
          + ShieldFile(board, shieldRank, c, isWhite)
          + ShieldFile(board, shieldRank, c + 1, isWhite)
     ELSE 0

evaluateKingSafety(board, r, c, isWhite) ==
  LET isBackRank == IF isWhite THEN r = 7 ELSE r = 0
      shieldRank == IF isWhite THEN r - 1 ELSE r + 1
  IN IF isBackRank
     THEN ShieldFile(board, shieldRank, c - 1, isWhite)
          + ShieldFile(board, shieldRank, c, isWhite)
          + ShieldFile(board, shieldRank, c + 1, isWhite)
     ELSE 0

\* ------------------------------------------------------------------------
\* services/evaluation: evaluateBoard
\* ------------------------------------------------------------------------

RECURSIVE SumFn(_, _)
SumFn(f, i) == IF i > 63 THEN 0 ELSE f[i] + SumFn(f, i + 1)

MaxOf(S) == CHOOSE x \in S : \A y \in S : y <= x

\* The piece-square value read for a piece on square squareIndex.
pstVal(piece, squareIndex) ==
  IF piece.color = "w" THEN PstAt(piece.type, squareIndex)
  ELSE PstAt(piece.type, 63 - squareIndex)

\* Steps 1-3 of the first pass for the piece on square (r, c):
\* material, piece-square table and mobility, all signed by colour.
PieceTerm(board, r, c) ==
  LET piece == board[Sq(r, c)]
      isWhite == piece.color = "w"
      sign == IF isWhite THEN 1 ELSE -1
      squareIndex == r * 8 + c
      mobility == IF piece.type # "p" /\ piece.type # "k"
                  THEN getPieceMobility(board, r, c, piece.type, piece.color)
                  ELSE 0
  IN IF piece = Empty THEN 0
     ELSE PIECE_VALUES[piece.type] * sign + pstVal(piece, squareIndex) * sign
          + mobility * MOBILITY_WEIGHT * sign

\* whitePawnsPerFile[c] / blackPawnsPerFile[c] after the first pass.
PawnsPerFile(board, color, c) ==
  Cardinality({r \in 0..7 : board[Sq(r, c)] = Pc("p", color)})

\* whiteBishopCount / blackBishopCount after the first pass.
BishopCount(board, color) ==
  Cardinality({i \in Squares : board[i] = Pc("b", color)})

\* whiteKingPos / blackKingPos after the first pass: the last king of that
\* colour met in row-major order, or -1 when there is none.
KingPos(board, color) ==
  LET ks == {i \in Squares : board[i] = Pc("k", color)}
  IN IF ks = {} THEN -1 ELSE MaxOf(ks)

\* Step 4, the second pass, for the piece on square (r, c).
RookFileTerm(board, r, c) ==
  LET piece == board[Sq(r, c)]
      isWhite == piece.color = "w"
      myPawns == PawnsPerFile(board, piece.color, c)
      oppPawns == PawnsPerFile(board, Other(piece.color), c)
      bonus == IF oppPawns = 0 THEN ROOK_OPEN_FILE_BONUS ELSE ROOK_SEMI_OPEN_FILE_BONUS
  IN IF piece # Empty /\ piece.type = "r" /\ myPawns = 0
     THEN (IF isWhite THEN bonus ELSE -bonus)
     ELSE 0

\* Step 5.
BishopPairTerm(board) ==
  (IF BishopCount(board, "w") >= 2 THEN BISHOP_PAIR_BONUS ELSE 0)
  - (IF BishopCount(board, "b") >= 2 THEN BISHOP_PAIR_BONUS ELSE 0)

\* Step 6.
KingSafetyTerm(board) ==
  LET wk == KingPos(board, "w")
      bk == KingPos(board, "b")
  IN (IF wk # -1 THEN evaluateKingSafety(board, Row(wk), Col(wk), TRUE) ELSE 0)
     - (IF bk # -1 THEN evaluateKingSafety(board, Row(bk), Col(bk), FALSE) ELSE 0)

\* The sum of the six terms for a board view.
BoardScore(board) ==
  SumFn([i \in Squares |-> PieceTerm(board, Row(i), Col(i))], 0)
  + SumFn([i \in Squares |-> RookFileTerm(board, Row(i), Col(i))], 0)
  + BishopPairTerm(board)
  + KingSafetyTerm(board)

\* Fault variant of evaluateBoard: a bonus for the side to move.
evaluateBoardTempo(game) ==
  BoardScore(game.board) + (IF game.turn = "w" THEN 10 ELSE -10)

\* const board = game.board(); ... return totalEvaluation
evaluateBoard(game) == BoardScore(game.board)

\* ------------------------------------------------------------------------
\* Rules engine (chess.js) as used by the core: a position handle is
\*   [board, turn, history]; castling rights and en-passant targets are
\*   absent from the positions considered (no castling right is set and no
\*   pawn stands on its initial rank next to an enemy pawn's path).
\* ------------------------------------------------------------------------

Abs(x) == IF x < 0 THEN -x ELSE x

\* Offsets (row, column) in the rules engine's generation order.
KNIGHT_OFFSETS == << <<-1,-2>>, <<-2,-1>>, <<-2,1>>, <<-1,2>>, <<1,2>>, <<2,1>>, <<2,-1>>, <<1,-2>> >>
BISHOP_OFFSETS == << <<-1,-1>>, <<-1,1>>, <<1,1>>, <<1,-1>> >>
ROOK_OFFSETS == << <<-1,0>>, <<0,1>>, <<1,0>>, <<0,-1>> >>
QUEEN_OFFSETS == << <<-1,-1>>, <<-1,0>>, <<-1,1>>, <<0,1>>, <<1,1>>, <<1,0>>, <<1,-1>>, <<0,-1>> >>

PIECE_OFFSETS == [n |-> KNIGHT_OFFSETS, b |-> BISHOP_OFFSETS, r |-> ROOK_OFFSETS,
                  q |-> QUEEN_OFFSETS, k |-> QUEEN_OFFSETS]

PROMOTIONS == <<"q", "r", "b", "n">>

FileChar == <<"a", "b", "c", "d", "e", "f", "g", "h">>
RankChar == <<"8", "7", "6", "5", "4", "3", "2", "1">>
PieceChar == [p |-> "P", n |-> "N", b |-> "B", r |-> "R", q |-> "Q", k |-> "K"]

\* A generated move before its notation is attached.
MkMove(board, from, to, promotion) ==
  LET piece == board[from]
      target == board[to]
      captured == IF target = Empty THEN "-" ELSE target.type
      big == piece.type = "p" /\ Abs(Row(to) - Row(from)) = 2
  IN [color |-> piece.color, from |-> from, to |-> to, piece |-> piece.type,
      captured |-> captured, promotion |-> promotion,
      flags |-> (IF captured # "-" THEN <<"c">> ELSE IF big THEN <<"b">> ELSE <<"n">>)
                \o (IF promotion # "-" THEN <<"p">> ELSE << >>)]

\* Destinations along one ray of a sliding piece, nearest first.
RECURSIVE Ray(_, _, _, _, _, _)
Ray(board, nr, nc, dr, dc, color) ==
  IF ~isValidSquare(nr, nc) THEN << >>
  ELSE LET target == board[Sq(nr, nc)] IN
       IF target = Empty THEN <<Sq(nr, nc)>> \o Ray(board, nr + dr, nc + dc, dr, dc, color)
       ELSE IF target.color # color THEN <<Sq(nr, nc)>> ELSE << >>

RECURSIVE PieceTargets(_, _, _, _)
PieceTargets(board, from, offsets, k) ==
  IF k > Len(offsets) THEN << >>
  ELSE LET piece == board[from]
           nr == Row(from) + offsets[k][1]
           nc == Col(from) + offsets[k][2]
           here == IF piece.type \in {"n", "k"}
                   THEN IF isValidSquare(nr, nc) /\ board[Sq(nr, nc)].color # piece.color
                        THEN <<Sq(nr, nc)>> ELSE << >>
                   ELSE Ray(board, nr, nc, offsets[k][1], offsets[k][2], piece.color)
       IN here \o PieceTargets(board, from, offsets, k + 1)

\* The moves to one destination: four when a pawn reaches the last rank.
MovesTo(board, from, to) ==
  IF board[from].type = "p" /\ Row(to) \in {0, 7}
  THEN [k \in 1..4 |-> MkMove(board, from, to, PROMOTIONS[k])]
  ELSE <<MkMove(board, from, to, "-")>>

PawnMoves(board, from) ==
  LET color == board[from].color
      r == Row(from)
      c == Col(from)
      fwd == IF color = "w" THEN -1 ELSE 1
      second == IF color = "w" THEN 6 ELSE 1
      one == IF isValidSquare(r + fwd, c) /\ board[Sq(r + fwd, c)] = Empty
             THEN MovesTo(board, from, Sq(r + fwd, c)) ELSE << >>
      two == IF one # << >> /\ r = second /\ board[Sq(r + 2 * fwd, c)] = Empty
             THEN MovesTo(board, from, Sq(r + 2 * fwd, c)) ELSE << >>
      capDirs == IF color = "w" THEN <<-1, 1>> ELSE <<1, -1>>
      Cap(dc) == IF isValidSquare(r + fwd, c + dc)
                    /\ board[Sq(r + fwd, c + dc)].color = Other(color)
                 THEN MovesTo(board, from, Sq(r + fwd, c + dc)) ELSE << >>
  IN one \o two \o Cap(capDirs[1]) \o Cap(capDirs[2])

RECURSIVE FlatMoves(_, _, _, _)
FlatMoves(board, from, targets, k) ==
  IF k > Len(targets) THEN << >>
  ELSE MovesTo(board, from, targets[k]) \o FlatMoves(board, from, targets, k + 1)

\* Pseudo-legal moves of the side `us`, scanning squares a8 .. h1.
RECURSIVE PseudoMoves(_, _, _)
PseudoMoves(board, us, from) ==
  IF from > 63 THEN << >>
  ELSE LET piece == board[from]
           here == IF piece.color # us THEN << >>
                   ELSE IF piece.type = "p" THEN PawnMoves(board, from)
                   ELSE FlatMoves(board, from,
                                  PieceTargets(board, from, PIECE_OFFSETS[piece.type], 1), 1)
       IN here \o PseudoMoves(board, us, from + 1)

\* Whether the piece on square `from` attacks square `to`.
Attacks(board, from, to) ==
  LET piece == board[from]
      dr == Row(to) - Row(from)
      dc == Col(to) - Col(from)
      n == IF Abs(dr) > Abs(dc) THEN Abs(dr) ELSE Abs(dc)
      sr == IF dr > 0 THEN 1 ELSE IF dr < 0 THEN -1 ELSE 0
      sc == IF dc > 0 THEN 1 ELSE IF dc < 0 THEN -1 ELSE 0
      straight == (dr = 0 \/ dc = 0) /\ n > 0
      diagonal == Abs(dr) = Abs(dc) /\ n > 0
      clear == \A k \in 1..(n - 1) : board[Sq(Row(from) + k * sr, Col(from) + k * sc)] = Empty
  IN CASE piece.type = "p" -> dr = (IF piece.color = "w" THEN -1 ELSE 1) /\ Abs(dc) = 1
       [] piece.type = "n" -> {Abs(dr), Abs(dc)} = {1, 2}
       [] piece.type = "k" -> n = 1
       [] piece.type = "b" -> diagonal /\ clear
       [] piece.type = "r" -> straight /\ clear
       [] piece.type = "q" -> (straight \/ diagonal) /\ clear
       [] OTHER -> FALSE

isAttacked(board, by, square) ==
  \E from \in Squares : board[from].color = by /\ Attacks(board, from, square)

isKingAttacked(board, color) ==
  \E k \in Squares : board[k] = Pc("k", color) /\ isAttacked(board, Other(color), k)

\* The board after a move is made.
MakeBoard(board, m) ==
  [board EXCEPT ![m.from] = Empty,
                ![m.to] = IF m.promotion # "-" THEN Pc(m.promotion, m.color)
                          ELSE Pc(m.piece, m.color)]

\* The board after a move is taken back.
UnmakeBoard(board, m) ==
  [board EXCEPT ![m.to] = IF m.captured # "-" THEN Pc(m.captured, Other(m.color))
                          ELSE Empty,
                ![m.from] = Pc(m.piece, m.color)]

\* Legal moves without notation: pseudo-legal moves that do not leave the
\* mover's king attacked, in generation order.
LegalMoves(board, us) ==
  SelectSeq(PseudoMoves(board, us, 0),
            LAMBDA m : ~isKingAttacked(MakeBoard(board, m), us))

\* Standard algebraic notation of a move, one character per element.
moveToSan(board, m) ==
  LET after == MakeBoard(board, m)
      them == Other(m.color)
      marker == IF isKingAttacked(after, them)
                THEN IF LegalMoves(after, them) = << >> THEN <<"#">> ELSE <<"+">>
                ELSE << >>
  IN (IF m.piece # "p" THEN <<PieceChar[m.piece]>>
      ELSE IF m.captured # "-" THEN <<FileChar[Col(m.from) + 1]>> ELSE << >>)
     \o (IF m.captured # "-" THEN <<"x">> ELSE << >>)
     \o <<FileChar[Col(m.to) + 1], RankChar[Row(m.to) + 1]>>
     \o (IF m.promotion # "-" THEN <<"=", PieceChar[m.promotion]>> ELSE << >>)
     \o marker

WithSan(board, m) ==
  [color |-> m.color, from |-> m.from, to |-> m.to, piece |-> m.piece,
   captured |-> m.captured, promotion |-> m.promotion, flags |-> m.flags,
   san |-> moveToSan(board, m)]

\* game.moves({ verbose: true })
moves(game) ==
  LET legal == LegalMoves(game.board, game.turn)
  IN [k \in 1..Len(legal) |-> WithSan(game.board, legal[k])]

\* game.turn()
turn(game) == game.turn

\* game.move(m)
move(game, m) ==
  [board |-> MakeBoard(game.board, m),
   turn |-> Other(game.turn),
   history |-> Append(game.history, [move |-> m, turn |-> game.turn])]

\* game.undo(): takes back the last move of the history, if any.
undo(game) ==
  IF game.history = << >> THEN game
  ELSE LET old == game.history[Len(game.history)]
       IN [board |-> UnmakeBoard(game.board, old.move),
           turn |-> old.turn,
           history |-> SubSeq(game.history, 1, Len(game.history) - 1)]

\* Light squares have an even row + column sum.
SquareShade(i) == (Row(i) + Col(i)) % 2

isInsufficientMaterial(board) ==
  LET pieces == {i \in Squares : board[i] # Empty}
      bishops == {i \in pieces : board[i].type = "b"}
      knights == {i \in pieces : board[i].type = "n"}
      numPieces == Cardinality(pieces)
  IN \/ numPieces = 2
     \/ numPieces = 3 /\ (Cardinality(bishops) = 1 \/ Cardinality(knights) = 1)
     \/ /\ numPieces = Cardinality(bishops) + 2
        /\ \A i, j \in bishops : SquareShade(i) = SquareShade(j)

\* game.isGameOver(): checkmate, stalemate or a draw by insufficient
\* material (the fifty-move and repetition draws need a longer history
\* than the positions considered carry).
isGameOver(game) ==
  \/ LegalMoves(game.board, game.turn) = << >>
  \/ isInsufficientMaterial(game.board)

isCheckmate(game) ==
  /\ isKingAttacked(game.board, game.turn)
  /\ LegalMoves(game.board, game.turn) = << >>

\* ------------------------------------------------------------------------
\* services/chessAI: move ordering
\* ------------------------------------------------------------------------

\* Values for MVV-LVA move ordering.
AI_PIECE_VALUES == [p |-> 100, n |-> 320, b |-> 330, r |-> 500, q |-> 900, k |-> 20000]

\* PIECE_VALUES[x] || 0
ValueOrZero(x) == IF x \in DOMAIN AI_PIECE_VALUES THEN AI_PIECE_VALUES[x] ELSE 0

\* String.prototype.includes for a one-character needle.
includes(str, ch) == \E i \in 1..Len(str) : str[i] = ch

\* Fault variant of CaptureScore: victim and aggressor exchanged.
CaptureScoreSwapped(m) ==
  IF m.captured # "-"
  THEN 10000 + (ValueOrZero(m.piece) * 10) - ValueOrZero(m.captured)
  ELSE 0

CaptureScore(m) ==
  IF m.captured # "-"
  THEN 10000 + (ValueOrZero(m.captured) * 10) - ValueOrZero(m.piece)
  ELSE 0

PromotionScore(m) ==
  IF m.promotion # "-"
  THEN (IF m.promotion = "q" THEN 9000 ELSE 4000)
  ELSE 0

CheckScore(m) ==
  IF includes(m.san, "+") \/ includes(m.san, "#") THEN 2000 ELSE 0

CastlingScore(m) ==
  IF includes(m.flags, "k") \/ includes(m.flags, "q") THEN 500 ELSE 0

getMoveScore(m) ==
  CaptureScore(m) + PromotionScore(m) + CheckScore(m) + CastlingScore(m)

\* Stable insertion of m into a list sorted by descending score.
RECURSIVE InsertByScore(_, _)
InsertByScore(sorted, m) ==
  IF sorted = << >> THEN <<m>>
  ELSE IF getMoveScore(Head(sorted)) >= getMoveScore(m)
       THEN <<Head(sorted)>> \o InsertByScore(Tail(sorted), m)
       ELSE <<m>> \o sorted

\* moves.sort((a, b) => getMoveScore(b) - getMoveScore(a)): a stable sort,
\* descending by score.
RECURSIVE SortPrefix(_, _)
SortPrefix(ms, k) ==
  IF k = 0 THEN << >> ELSE InsertByScore(SortPrefix(ms, k - 1), ms[k])

sortMoves(ms) == SortPrefix(ms, Len(ms))

\* ------------------------------------------------------------------------
\* services/chessAI: getBestMove and minimax, as a machine that steps
\* through the recursion with an explicit call stack
\* ------------------------------------------------------------------------

\* Stand-in for IEEE Infinity: larger than any score evaluateBoard returns.
Infinity == 1000000

\* null, where a move is expected.
Null == [null |-> TRUE]

Max(a, b) == IF a > b THEN a ELSE b
Min(a, b) == IF a < b THEN a ELSE b

Difficulties == {"Easy", "Medium", "Hard"}

\* Fault variant of SearchDepth: the two search tiers exchanged.
SearchDepthSwapped(d) == IF d = "Medium" THEN 3 ELSE 2

\* const depth = difficulty === Difficulty.Medium ? 2 : 3
SearchDepth(d) == IF d = "Medium" THEN 2 ELSE 3

\* Resolution of the random source: Math.random() yields k / RandomSteps.
RandomSteps == 32

\* Math.floor(Math.random() * possibleMoves.length) for the draw k / RandomSteps.
randomIndex(k, n) == (k * n) \div RandomSteps

\* A fresh activation of minimax(game, depth, alpha, beta, isMaximizingPlayer).
Frame(depth, alpha, beta, isMaximizingPlayer) ==
  [depth |-> depth, alpha |-> alpha, beta |-> beta,
   isMaximizingPlayer |-> isMaximizingPlayer,
   moves |-> << >>, current |-> Null, bestMove |-> Null,
   best |-> IF isMaximizingPlayer THEN -Infinity ELSE Infinity]

\* The root call made by getBestMove.
RootFrame(g, d) == Frame(SearchDepth(d), -Infinity, Infinity, turn(g) = "w")

\* Fault variant of ChildFrame: the child is called with the depth of its
\* parent.
ChildFrameSameDepth(fr) == Frame(fr.depth, fr.alpha, fr.beta, ~fr.isMaximizingPlayer)

\* The call made for a child of the activation fr.
ChildFrame(fr) == Frame(fr.depth - 1, fr.alpha, fr.beta, ~fr.isMaximizingPlayer)

\* Fault variant of IsBaseCase: the game-over test is left out.
IsBaseCaseDepthOnly(g, depth) == depth = 0

\* depth === 0 || game.isGameOver()
IsBaseCase(g, depth) == depth = 0 \/ isGameOver(g)

\* Fault variant of FoldChild: a later move that only equals the best score
\* replaces the best move (>= and <= for > and <).
FoldChildLastBest(fr, bestScore) ==
  IF fr.isMaximizingPlayer
  THEN [fr EXCEPT !.best = IF bestScore >= fr.best THEN bestScore ELSE fr.best,
                  !.bestMove = IF bestScore >= fr.best THEN fr.current ELSE fr.bestMove,
                  !.alpha = Max(fr.alpha, bestScore)]
  ELSE [fr EXCEPT !.best = IF bestScore <= fr.best THEN bestScore ELSE fr.best,
                  !.bestMove = IF bestScore <= fr.best THEN fr.current ELSE fr.bestMove,
                  !.beta = Min(fr.beta, bestScore)]

\* The loop body after the recursive call, without the undo: fold the
\* child's score into maxEval/minEval and bestMove, tighten alpha or beta.
FoldChild(fr, bestScore) ==
  IF fr.isMaximizingPlayer
  THEN [fr EXCEPT !.best = IF bestScore > fr.best THEN bestScore ELSE fr.best,
                  !.bestMove = IF bestScore > fr.best THEN fr.current ELSE fr.bestMove,
                  !.alpha = Max(fr.alpha, bestScore)]
  ELSE [fr EXCEPT !.best = IF bestScore < fr.best THEN bestScore ELSE fr.best,
                  !.bestMove = IF bestScore < fr.best THEN fr.current ELSE fr.bestMove,
                  !.beta = Min(fr.beta, bestScore)]

\* Fault variant of CutOff: the loop goes on when beta equals alpha.
CutOffStrict(fr) == fr.beta < fr.alpha

\* Fault variant of CutOff: the loop is left while the window is still open.
CutOffEager(fr) == fr.beta <= fr.alpha + 100

\* if (beta <= alpha) break
CutOff(fr) == fr.beta <= fr.alpha

\* Fault variant of AfterChild: the break is taken before the undo.
AfterChildBreakFirst(g, fr, bestScore) ==
  LET folded == FoldChild(fr, bestScore)
  IN [game |-> IF folded.beta <= folded.alpha THEN g ELSE undo(g), frame |-> folded]

\* The loop body after the recursive call: game.undo(), then the fold.
AfterChild(g, fr, bestScore) ==
  [game |-> undo(g), frame |-> FoldChild(fr, bestScore)]

\* Fault variant of FinalMove: no fallback when the search found no move.
FinalMoveNoFallback(bestMove, possible) == bestMove

\* Fault variant of FinalMove: the fallback is the first move of the list
\* as minimax sorts it.
FinalMoveSorted(bestMove, possible) ==
  IF bestMove # Null THEN bestMove ELSE sortMoves(possible)[1]

\* return bestMove || possibleMoves[0]
FinalMove(bestMove, possible) == IF bestMove # Null THEN bestMove ELSE possible[1]

\* A move without its notation, as the rules engine generates it.
BaseMove(m) ==
  [color |-> m.color, from |-> m.from, to |-> m.to, piece |-> m.piece,
   captured |-> m.captured, promotion |-> m.promotion, flags |-> m.flags]

\* game.move(m) throws unless m is legal in the current position.
moveThrows(g, m) ==
  LET legal == LegalMoves(g.board, g.turn)
  IN ~(m # Null /\ \E k \in 1..Len(legal) : legal[k] = BaseMove(m))

VARIABLES
  game,           \* the position handle passed to getBestMove
  difficulty,     \* the difficulty passed to getBestMove
  possibleMoves,  \* getBestMove's possibleMoves
  pc,             \* where control is: idle, call, loop, ret, back, done, threw
  stack,          \* activations of minimax, the root first
  ret,            \* the MinimaxResult of the activation that last returned
  result,         \* what getBestMove returned
  rootScore,      \* bestScore of the root call
  rnd,            \* the random draw (numerator), -1 when none was made
  entry,          \* the position handle as it was on entry
  applied,        \* whether game.move has been called
  undone,         \* whether game.undo has taken a move back
  cuts,           \* whether a loop was left by break with moves remaining
  playerColor,    \* App: the colour the player plays
  isThinking,     \* App: the 'AI thinking' flag
  pendingPromotion, \* App: the promotion awaiting the player's choice, or Null
  takebackStatus, \* App: idle, requesting or declined
  aiTimer,        \* App: the pending 300 ms timer of the AI move effect, or Null
  takebackTimers, \* App: the pending 800 ms timers of requestTakeback
  declineTimers,  \* App: the number of pending 2000 ms timers after a decline
  track           \* what the player has done so far, for the claims and bounds

\* The state of the application component.
appVars == <<playerColor, isThinking, pendingPromotion, takebackStatus, aiTimer,
             takebackTimers, declineTimers, track>>

\* The state of a call of getBestMove that is stepped through.
searchVars == <<possibleMoves, pc, stack, ret, result, rootScore, rnd, entry,
                applied, undone, cuts>>

vars == <<game, difficulty, possibleMoves, pc, stack, ret, result, rootScore,
          rnd, entry, applied, undone, cuts, playerColor, isThinking,
          pendingPromotion, takebackStatus, aiTimer, takebackTimers,
          declineTimers, track>>

Top == stack[Len(stack)]
SetTop(fr) == [stack EXCEPT ![Len(stack)] = fr]
NoResult == [bestMove |-> Null, bestScore |-> 0]

\* Nothing recorded about the player.
NoTrack == [before |-> Null, replies |-> 0, actions |-> 0]

\* The application component as constructed: useState's initial values,
\* no timer pending.
AppConstructed ==
  /\ playerColor = "w"
  /\ isThinking = FALSE
  /\ pendingPromotion = Null
  /\ takebackStatus = "idle"
  /\ aiTimer = Null
  /\ takebackTimers = << >>
  /\ declineTimers = 0
  /\ track = NoTrack

\* ------------------------------------------------------------------------
\* Positions the search is started from
\* ------------------------------------------------------------------------

\* Square of file f (1 = a .. 8 = h) and rank k (1..8).
At(f, k) == Sq(8 - k, f - 1)

\* The board holding the pieces ps, a set of <<square, type, color>>.
BoardOf(ps) ==
  [i \in Squares |->
     IF \E p \in ps : p[1] = i
     THEN LET p == CHOOSE q \in ps : q[1] = i IN Pc(p[2], p[3])
     ELSE Empty]

NewGame(ps, side) == [board |-> BoardOf(ps), turn |-> side, history |-> << >>]

\* The k-th legal move made on a handle.
Played(g, k) == move(g, moves(g)[k])

\* White: Kg6 Ra1, Black: Kg8 Nh1.  Ra8 mates, Rxh1 wins a knight.
MateOrKnight ==
  NewGame({<<At(7,6), "k", "w">>, <<At(1,1), "r", "w">>,
           <<At(7,8), "k", "b">>, <<At(8,1), "n", "b">>}, "w")

\* White: Ka1 Be4, Black: Ke5.  Drawn by insufficient material, yet Black
\* has moves, Kxe4 among them.
BareBishop ==
  NewGame({<<At(1,1), "k", "w">>, <<At(5,4), "b", "w">>, <<At(5,5), "k", "b">>}, "b")

\* White: Kc6 Qc7, Black: Ka8, Black to move: stalemate.
Stalemate ==
  NewGame({<<At(3,6), "k", "w">>, <<At(3,7), "q", "w">>, <<At(1,8), "k", "b">>}, "b")

\* White: Ke1 Pd4, Black: Ke8 Nc6, Black to move.
KnightVsPawn ==
  NewGame({<<At(5,1), "k", "w">>, <<At(4,4), "p", "w">>,
           <<At(5,8), "k", "b">>, <<At(3,6), "n", "b">>}, "b")

\* White: Kh1 Pb7, Black: Kg7 Ra8.  The pawn promotes on b8 or on a8.
Promotion ==
  NewGame({<<At(8,1), "k", "w">>, <<At(2,7), "p", "w">>,
           <<At(7,7), "k", "b">>, <<At(1,8), "r", "b">>}, "w")

\* White: Kc3 Pc4, Black: Kc6 Pb6.
PawnEnding ==
  NewGame({<<At(3,3), "k", "w">>, <<At(3,4), "p", "w">>,
           <<At(3,6), "k", "b">>, <<At(2,6), "p", "b">>}, "w")

\* White: Kg1 Bc1 Bf1 Pg2, Black: Kg8 Rd8 Pg7.
BishopsVsRook ==
  NewGame({<<At(7,1), "k", "w">>, <<At(3,1), "b", "w">>, <<At(6,1), "b", "w">>,
           <<At(7,2), "p", "w">>, <<At(7,8), "k", "b">>, <<At(4,8), "r", "b">>,
           <<At(7,7), "p", "b">>}, "b")

\* White: Ka1 Be3, Black: Kb8.  Drawn by insufficient material, yet White
\* has moves; the first one generated is Bd4, the first one sorted is a check.
BishopCheck ==
  NewGame({<<At(1,1), "k", "w">>, <<At(5,3), "b", "w">>, <<At(2,8), "k", "b">>}, "w")

\* The initial position of a game.
StartingPosition ==
  NewGame({<<At(f, 2), "p", "w">> : f \in 1..8} \cup {<<At(f, 7), "p", "b">> : f \in 1..8}
          \cup {<<At(1,1), "r", "w">>, <<At(2,1), "n", "w">>, <<At(3,1), "b", "w">>,
                <<At(4,1), "q", "w">>, <<At(5,1), "k", "w">>, <<At(6,1), "b", "w">>,
                <<At(7,1), "n", "w">>, <<At(8,1), "r", "w">>}
          \cup {<<At(1,8), "r", "b">>, <<At(2,8), "n", "b">>, <<At(3,8), "b", "b">>,
                <<At(4,8), "q", "b">>, <<At(5,8), "k", "b">>, <<At(6,8), "b", "b">>,
                <<At(7,8), "n", "b">>, <<At(8,8), "r", "b">>}, "w")

\* Number of catalogue positions explored.
NumStart == 9

StartGame(k) ==
  CASE k = 1 -> MateOrKnight
    [] k = 2 -> BishopCheck
    [] k = 3 -> Stalemate
    [] k = 4 -> KnightVsPawn
    [] k = 5 -> Promotion
    [] k = 6 -> Played(MateOrKnight, 1)
    [] k = 7 -> BareBishop
    [] k = 8 -> PawnEnding
    [] k = 9 -> StartingPosition
    [] OTHER -> BishopsVsRook

StartGames == {StartGame(k) : k \in 1..NumStart}

\* ------------------------------------------------------------------------
\* Actions
\* ------------------------------------------------------------------------

Init ==
  /\ game \in StartGames
  /\ difficulty \in Difficulties
  /\ possibleMoves = << >>
  /\ pc = "idle"
  /\ stack = << >>
  /\ ret = NoResult
  /\ result = Null
  /\ rootScore = 0
  /\ rnd = -1
  /\ entry = game
  /\ applied = FALSE
  /\ undone = FALSE
  /\ cuts = FALSE
  /\ AppConstructed

\* getBestMove(game, difficulty) up to its return or its call of minimax.
GetBestMove ==
  /\ pc = "idle"
  /\ possibleMoves' = moves(game)
  /\ IF Len(possibleMoves') = 0
     THEN /\ pc' = "done"
          /\ result' = Null
          /\ UNCHANGED <<stack, rnd>>
     ELSE IF difficulty = "Easy"
     THEN \E k \in 0..(RandomSteps - 1) :
            /\ rnd' = k
            /\ result' = possibleMoves'[randomIndex(k, Len(possibleMoves')) + 1]
            /\ pc' = "done"
            /\ UNCHANGED stack
     ELSE /\ stack' = <<RootFrame(game, difficulty)>>
          /\ pc' = "call"
          /\ UNCHANGED <<result, rnd>>
  /\ UNCHANGED appVars
  /\ UNCHANGED <<game, difficulty, ret, rootScore, entry, applied, undone, cuts>>

\* minimax: the base case returns the static evaluation.
MinimaxBase ==
  /\ pc = "call"
  /\ IsBaseCase(game, Top.depth)
  /\ ret' = [bestMove |-> Null, bestScore |-> evaluateBoard(game)]
  /\ pc' = "ret"
  /\ UNCHANGED appVars
  /\ UNCHANGED <<game, difficulty, possibleMoves, stack, result, rootScore,
                 rnd, entry, applied, undone, cuts>>

\* minimax: generate the legal moves and sort them.
MinimaxExpand ==
  /\ pc = "call"
  /\ ~IsBaseCase(game, Top.depth)
  /\ stack' = SetTop([Top EXCEPT !.moves = sortMoves(moves(game))])
  /\ pc' = "loop"
  /\ UNCHANGED appVars
  /\ UNCHANGED <<game, difficulty, possibleMoves, ret, result, rootScore,
                 rnd, entry, applied, undone, cuts>>

\* The sequence s without its i-th element.
Without(s, i) == SubSeq(s, 1, i - 1) \o SubSeq(s, i + 1, Len(s))

\* The loop body up to the recursive call, for the i-th remaining move.
ApplyMove(i) ==
  /\ pc = "loop"
  /\ Top.moves # << >>
  /\ LET m == Top.moves[i]
         fr == [Top EXCEPT !.moves = Without(Top.moves, i), !.current = m]
     IN IF moveThrows(game, m)
        THEN /\ pc' = "threw"
             /\ UNCHANGED <<game, stack, applied>>
        ELSE /\ game' = move(game, m)
             /\ stack' = Append(SetTop(fr), ChildFrame(fr))
             /\ applied' = TRUE
             /\ pc' = "call"
  /\ UNCHANGED appVars
  /\ UNCHANGED <<difficulty, possibleMoves, ret, result, rootScore, rnd,
                 entry, undone, cuts>>

\* minimax: the loop takes the next move of the sorted list, applies it
\* and recurses.
MinimaxApply == ApplyMove(1)

\* minimax: the loop has run out of moves; return the best found.
MinimaxExhausted ==
  /\ pc = "loop"
  /\ Top.moves = << >>
  /\ ret' = [bestMove |-> Top.bestMove, bestScore |-> Top.best]
  /\ pc' = "ret"
  /\ UNCHANGED appVars
  /\ UNCHANGED <<game, difficulty, possibleMoves, stack, result, rootScore,
                 rnd, entry, applied, undone, cuts>>

\* A nested activation returns to the loop of its caller.
MinimaxReturn ==
  /\ pc = "ret"
  /\ Len(stack) > 1
  /\ stack' = SubSeq(stack, 1, Len(stack) - 1)
  /\ pc' = "back"
  /\ UNCHANGED appVars
  /\ UNCHANGED <<game, difficulty, possibleMoves, ret, result, rootScore,
                 rnd, entry, applied, undone, cuts>>

\* minimax: undo the move, fold the child's score, break on a cut-off.
MinimaxFold ==
  /\ pc = "back"
  /\ LET after == AfterChild(game, Top, ret.bestScore)
     IN /\ game' = after.game
        /\ undone' = (undone \/ after.game # game)
        /\ stack' = SetTop(after.frame)
        /\ IF CutOff(after.frame)
           THEN /\ ret' = [bestMove |-> after.frame.bestMove,
                           bestScore |-> after.frame.best]
                /\ cuts' = (cuts \/ after.frame.moves # << >>)
                /\ pc' = "ret"
           ELSE /\ pc' = "loop"
                /\ UNCHANGED <<ret, cuts>>
  /\ UNCHANGED appVars
  /\ UNCHANGED <<difficulty, possibleMoves, result, rootScore, rnd, entry,
                 applied>>

\* The root activation returns into getBestMove, which returns its move.
GetBestMoveReturn ==
  /\ pc = "ret"
  /\ Len(stack) = 1
  /\ stack' = << >>
  /\ rootScore' = ret.bestScore
  /\ result' = FinalMove(ret.bestMove, possibleMoves)
  /\ pc' = "done"
  /\ UNCHANGED appVars
  /\ UNCHANGED <<game, difficulty, possibleMoves, ret, rnd, entry, applied,
                 undone, cuts>>

Next ==
  \/ GetBestMove
  \/ MinimaxBase
  \/ MinimaxExpand
  \/ MinimaxApply
  \/ MinimaxExhausted
  \/ MinimaxReturn
  \/ MinimaxFold
  \/ GetBestMoveReturn

Spec == Init /\ [][Next]_vars

\* ------------------------------------------------------------------------
\* Reference: exhaustive minimax, no pruning
\* ------------------------------------------------------------------------

Range(sq) == {sq[k] : k \in 1..Len(sq)}

\* Exhaustive minimax of the given depth with the base case of the search;
\* the moves are scanned in the order of the sorted list and the first move
\* that attains the best value is kept.
RECURSIVE Exhaustive(_, _, _)
RECURSIVE ExhaustiveScan(_, _, _, _, _, _)
ExhaustiveScan(g, ms, depth, isMax, bestMove, best) ==
  IF ms = << >> THEN [bestMove |-> bestMove, bestScore |-> best]
  ELSE LET sc == Exhaustive(move(g, Head(ms)), depth - 1, ~isMax).bestScore
           better == IF isMax THEN sc > best ELSE sc < best
       IN IF better
          THEN ExhaustiveScan(g, Tail(ms), depth, isMax, Head(ms), sc)
          ELSE ExhaustiveScan(g, Tail(ms), depth, isMax, bestMove, best)

Exhaustive(g, depth, isMax) ==
  IF depth = 0 \/ isGameOver(g)
  THEN [bestMove |-> Null, bestScore |-> evaluateBoard(g)]
  ELSE ExhaustiveScan(g, sortMoves(moves(g)), depth, isMax, Null,
                      IF isMax THEN -Infinity ELSE Infinity)

Searched == pc = "done" /\ difficulty \in {"Medium", "Hard"} /\ possibleMoves # << >>

\* The position reached from the entry position by the moves the first k
\* activations of the stack are exploring.
RECURSIVE Line(_)
Line(k) == IF k = 0 THEN entry ELSE move(Line(k - 1), stack[k].current)

\* ------------------------------------------------------------------------
\* Properties
\* ------------------------------------------------------------------------

\* C1: when getBestMove has returned, the position handle (board, side to
\* move, history) is as it was on entry, for every difficulty; and every
\* activation of minimax returns (base case, loop run out, or break on a
\* cut-off) with the position it was called on, every move it applied
\* having been undone; no call of game.move throws.
C1_PositionRestored ==
  /\ pc = "done" => game = entry
  /\ pc = "ret" => game = Line(Len(stack) - 1)
  /\ pc # "threw"

\* A nested activation returns through the break of a cut-off, moves
\* remaining, and the position is the one it was called on.
C1_Witness ==
  /\ pc = "ret"
  /\ Len(stack) >= 2
  /\ Top.moves # << >>
  /\ Top.current # Null
  /\ applied
  /\ game = Line(Len(stack) - 1)

\* C2: the root call returns the score of the exhaustive minimax of the
\* same depth, and the move the exhaustive minimax selects when it scans the
\* sorted list and keeps the first move attaining the best value.
C2_EqualsExhaustive ==
  Searched =>
    LET ex == Exhaustive(entry, SearchDepth(difficulty), entry.turn = "w")
    IN rootScore = ex.bestScore /\ ret.bestMove = ex.bestMove

\* A depth-3 search that pruned siblings has returned a move.
C2_Witness ==
  Searched /\ difficulty = "Hard" /\ cuts /\ ret.bestMove # Null

\* C3: getBestMove returns null exactly when the position has no legal
\* move, for every difficulty; otherwise it returns, without throwing, a
\* member of the legal-move list of the input position.
C3_NullIffNoMoves ==
  /\ pc # "threw"
  /\ pc = "done" =>
       /\ (result = Null <=> moves(entry) = << >>)
       /\ (result # Null => result \in Range(moves(entry)))

\* The search was asked for a move in a drawn position that has legal
\* moves; the root call found none, and a legal move was returned.
C3_Witness ==
  /\ Searched
  /\ ret.bestMove = Null
  /\ result \in Range(moves(entry))

\* C4: on Easy no move is applied or undone and the move at index
\* floor(r * N) is returned, every index below N being the image of some
\* draw; on Medium the root depth is 2, on Hard 3; the root maximizes if
\* and only if it is White's turn.
C4_DifficultyFixesSearch ==
  /\ difficulty = "Easy" =>
       /\ ~applied /\ ~undone /\ stack = << >>
       /\ possibleMoves # << >> =>
            /\ pc = "done"
            /\ rnd \in 0..(RandomSteps - 1)
            /\ result = possibleMoves[((rnd * Len(possibleMoves)) \div RandomSteps) + 1]
            /\ \A i \in 0..(Len(possibleMoves) - 1) :
                 \E k \in 0..(RandomSteps - 1) : randomIndex(k, Len(possibleMoves)) = i
  /\ (difficulty = "Medium" /\ stack # << >>) => stack[1].depth = 2
  /\ (difficulty = "Hard" /\ stack # << >>) => stack[1].depth = 3
  /\ stack # << >> => (stack[1].isMaximizingPlayer <=> entry.turn = "w")
  /\ \A k \in 2..Len(stack) : stack[k].depth = stack[k - 1].depth - 1

\* Easy returned a move other than the first one.
C4_Witness ==
  /\ pc = "done" /\ difficulty = "Easy"
  /\ rnd > 0
  /\ result # Null /\ result # possibleMoves[1]

\* A search of a position with Black to move is under way on Medium.
C4_WitnessSearch ==
  /\ difficulty = "Medium" /\ Len(stack) = 3 /\ entry.turn = "b"

\* C5: where the side to move has a checkmating move, the search (Medium
\* and Hard) returns a checkmating move.
C5_SelectsMate ==
  (Searched /\ \E m \in Range(possibleMoves) : includes(m.san, "#"))
    => includes(result.san, "#")

\* C10: on Medium and Hard, when legal moves exist and the root search
\* returns no best move, getBestMove returns the first move of the list in
\* generation order.
C10_FallbackFirstGenerated ==
  (Searched /\ ret.bestMove = Null) => result = moves(entry)[1]

\* The fallback was taken where the first generated move is not the first
\* move of the sorted list.
C10_Witness ==
  /\ Searched /\ ret.bestMove = Null
  /\ difficulty = "Hard"
  /\ result = possibleMoves[1]
  /\ sortMoves(possibleMoves)[1] # possibleMoves[1]

\* C11 as stated: a root search of a position with legal moves returns
\* no best move only where a cut-off has pruned moves.
C11_NullOnlyByCutOff ==
  (Searched /\ ret.bestMove = Null) => cuts

\* C11, amended: a root search (full window, depth 2 or 3) of a position
\* with legal moves returns no best move exactly when the position is
\* already game over (a draw that leaves legal moves), the root call then
\* being a base case; ordering and cut-offs never leave the root without
\* a best move.
C11_NullIffRootGameOver ==
  Searched => (ret.bestMove = Null <=> isGameOver(entry))

\* The root call of a drawn position with legal moves returned no best
\* move although no move was applied and nothing was cut off.
C11_Witness ==
  /\ Searched /\ ret.bestMove = Null
  /\ isGameOver(entry) /\ ~cuts /\ ~applied

\* A search that cut siblings off returned a best move from the root.
C11_WitnessCut ==
  /\ Searched /\ cuts /\ ret.bestMove # Null /\ ~isGameOver(entry)

\* The bounds of the activation fr after the score of a child is folded
\* in, as the claim words it: alpha is raised at a maximizing node only,
\* beta lowered at a minimizing node only.
C12_Alpha(fr, score) ==
  IF fr.isMaximizingPlayer /\ score > fr.alpha THEN score ELSE fr.alpha

C12_Beta(fr, score) ==
  IF ~fr.isMaximizingPlayer /\ score < fr.beta THEN score ELSE fr.beta

\* One step of the search seen by C12.
C12_Step ==
  /\ pc = "back" =>
       LET a == C12_Alpha(Top, ret.bestScore)
           b == C12_Beta(Top, ret.bestScore)
           after == stack'[Len(stack')]
       IN /\ Len(stack') = Len(stack)
          /\ after.alpha = a /\ after.beta = b
          /\ after.moves = Top.moves
          /\ IF b <= a
             THEN /\ pc' = "ret"
                  /\ ret' = [bestMove |-> after.bestMove, bestScore |-> after.best]
             ELSE pc' = "loop"
  /\ (pc = "loop" /\ Len(stack') > Len(stack)) =>
       /\ Top.alpha < Top.beta
       /\ stack'[Len(stack')].alpha = Top.alpha
       /\ stack'[Len(stack')].beta = Top.beta
  /\ pc = "ret" => (game' = game /\ Len(stack') = Len(stack) - 1)
  /\ pc # "back" =>
       \A k \in 1..Len(stack) :
         k <= Len(stack') =>
           (stack'[k].alpha = stack[k].alpha /\ stack'[k].beta = stack[k].beta)

\* C12: at every node, once beta <= alpha holds after a child's score is
\* folded in, no remaining sibling is applied and the node returns at once
\* with the best move and score found so far; every child is called with
\* the bounds as tightened by all its earlier siblings, alpha being raised
\* at maximizing nodes only and beta lowered at minimizing nodes only.
C12_CutOffReturnsAtOnce == [][C12_Step]_vars

\* A node below the root has returned on a cut-off with siblings left,
\* having been called with a window its parent's earlier children narrowed.
C12_Witness ==
  /\ pc = "ret" /\ Len(stack) >= 2
  /\ Top.current # Null /\ Top.moves # << >>
  /\ Top.beta <= Top.alpha
  /\ ret = [bestMove |-> Top.bestMove, bestScore |-> Top.best]
  /\ stack[Len(stack) - 1].bestMove # Null

\* The moves applied to the game since getBestMove was entered and not
\* yet undone.
C13_Applied ==
  [k \in 1..(Len(game.history) - Len(entry.history)) |->
     game.history[Len(entry.history) + k].move]

\* The recursion level the applied moves are measured against: the
\* activations below the root, plus the child that has just returned to
\* its caller and whose move is the next thing undone.
C13_Level == IF pc = "back" THEN Len(stack) ELSE Len(stack) - 1

\* C13: at every moment of a search the moves applied and not yet undone
\* form a line of legal moves from the input position; their number equals
\* the current recursion level and never exceeds the configured depth (2
\* or 3); no move is applied at a node with depth 0 or whose position is
\* game over.
C13_LineOfLegalMoves ==
  pc \in {"call", "loop", "ret", "back"} =>
    /\ Len(game.history) >= Len(entry.history)
    /\ SubSeq(game.history, 1, Len(entry.history)) = entry.history
    /\ Len(C13_Applied) = C13_Level
    /\ Len(C13_Applied) <= (IF difficulty = "Medium" THEN 2 ELSE 3)
    /\ \A k \in 1..Len(C13_Applied) :
         LET before == Line(k - 1)
         IN /\ C13_Applied[k] = stack[k].current
            /\ stack[k].depth > 0
            /\ BaseMove(C13_Applied[k]) \in
                 Range(LegalMoves(before.board, before.turn))
            /\ ~isGameOver(before)
    /\ LET now == Line(Len(C13_Applied))
       IN game.board = now.board /\ game.turn = now.turn

\* A depth-3 search stands three moves deep, at a node of depth 0.
C13_Witness ==
  /\ pc = "call" /\ difficulty = "Hard"
  /\ Len(C13_Applied) = 3 /\ Len(stack) = 4 /\ Top.depth = 0

\* A child whose position is game over has returned and its move is not
\* yet undone.
C13_WitnessGameOver ==
  /\ pc = "back" /\ isGameOver(game) /\ Len(C13_Applied) = Len(stack)

\* ------------------------------------------------------------------------
\* The evaluator on its own: boards drawn from a bounded family are
\* evaluated, then colour-flipped or handed over in another handle, and
\* evaluated again
\* ------------------------------------------------------------------------

\* Number of probe squares on which extra pieces are placed.
NumProbes == 5

\* g2, f2, g7, g4, f7, c3, c6, b1
ProbeSquare(k) ==
  CASE k = 1 -> At(7,2) [] k = 2 -> At(6,2) [] k = 3 -> At(7,7) [] k = 4 -> At(7,4)
    [] k = 5 -> At(6,7) [] k = 6 -> At(3,3) [] k = 7 -> At(3,6) [] OTHER -> At(2,1)

ProbeSquares == {ProbeSquare(k) : k \in 1..NumProbes}

ExtraPieces == {Pc(t, c) : t \in {"p", "n", "b", "r", "q"}, c \in {"w", "b"}}

\* King placements: both on their back ranks (g1, g8), or off them (e2, d6).
KingPairs == {<<At(7,1), At(7,8)>>, <<At(5,2), At(4,6)>>, <<At(7,1), At(4,6)>>}

\* Boards with two kings and at most two extra pieces on probe squares.
ProbeBoards ==
  {[i \in Squares |->
      IF i = kp[1] THEN Pc("k", "w")
      ELSE IF i = kp[2] THEN Pc("k", "b")
      ELSE IF i = s1 THEN p1
      ELSE IF i = s2 THEN p2
      ELSE Empty] :
     kp \in KingPairs, s1 \in ProbeSquares, s2 \in ProbeSquares,
     p1 \in ExtraPieces \cup {Empty}, p2 \in ExtraPieces \cup {Empty}}

EvalGames ==
  {[board |-> b, turn |-> "w", history |-> << >>] : b \in ProbeBoards}
  \cup {StartGame(k) : k \in 1..10}

\* The board with every piece moved from square i to 63 - i and recoloured.
flipColors(g) ==
  [board |-> [i \in Squares |->
                IF g.board[63 - i] = Empty THEN Empty
                ELSE Pc(g.board[63 - i].type, Other(g.board[63 - i].color))],
   turn |-> Other(g.turn),
   history |-> << >>]

\* Histories a second handle on the same board may carry.
OtherHistories == {<< >>, <<[move |-> Null, turn |-> "w"]>>}

InitEval ==
  /\ game \in EvalGames
  /\ difficulty = "-"
  /\ possibleMoves = << >>
  /\ pc = "fresh"
  /\ stack = << >>
  /\ ret = NoResult
  /\ result = Null
  /\ rootScore = 0
  /\ rnd = -1
  /\ entry = game
  /\ applied = FALSE
  /\ undone = FALSE
  /\ cuts = FALSE
  /\ AppConstructed

\* A first call of evaluateBoard(game).
Evaluate ==
  /\ pc = "fresh"
  /\ rootScore' = evaluateBoard(game)
  /\ pc' = "scored"
  /\ UNCHANGED appVars
  /\ UNCHANGED <<game, difficulty, possibleMoves, stack, ret, result, rnd,
                 entry, applied, undone, cuts>>

\* The colours are flipped.
FlipColors ==
  /\ pc = "scored"
  /\ game' = flipColors(game)
  /\ pc' = "flipped"
  /\ UNCHANGED appVars
  /\ UNCHANGED <<difficulty, possibleMoves, stack, ret, result, rootScore,
                 rnd, entry, applied, undone, cuts>>

\* Another handle with the same piece placement is taken.
OtherHandle ==
  /\ pc = "scored"
  /\ \E t \in {"w", "b"}, h \in OtherHistories :
       game' = [board |-> game.board, turn |-> t, history |-> h]
  /\ pc' = "rehandled"
  /\ UNCHANGED appVars
  /\ UNCHANGED <<difficulty, possibleMoves, stack, ret, result, rootScore,
                 rnd, entry, applied, undone, cuts>>

\* A second call of evaluateBoard(game).
EvaluateAgain ==
  /\ pc \in {"flipped", "rehandled"}
  /\ ret' = [bestMove |-> Null, bestScore |-> evaluateBoard(game)]
  /\ pc' = IF pc = "flipped" THEN "flipped_scored" ELSE "rehandled_scored"
  /\ UNCHANGED appVars
  /\ UNCHANGED <<game, difficulty, possibleMoves, stack, result, rootScore,
                 rnd, entry, applied, undone, cuts>>

NextEval == Evaluate \/ FlipColors \/ OtherHandle \/ EvaluateAgain

SpecEval == InitEval /\ [][NextEval]_vars

\* C6: evaluateBoard of the colour-flipped board (square i to 63 - i,
\* colours exchanged) is the negation of evaluateBoard of the board.
C6_FlipNegates ==
  pc = "flipped_scored" => ret.bestScore = -rootScore

\* A board whose kings stand on their back ranks behind a pawn, with a
\* nonzero score, was flipped and evaluated again.
C6_Witness ==
  /\ pc = "flipped_scored"
  /\ rootScore # 0
  /\ KingSafetyTerm(entry.board) # 0
  /\ \E i \in Squares : entry.board[i].type = "p"
  /\ ret.bestScore = -rootScore

\* C7: the score depends on the piece placement only, not on the side to
\* move, the history or earlier calls, and a call leaves the handle as it
\* was.
C7_BoardOnly ==
  /\ pc = "scored" => game = entry
  /\ pc = "rehandled_scored" => (game.board = entry.board /\ ret.bestScore = rootScore)

\* A handle with the other side to move and another history was evaluated.
C7_Witness ==
  /\ pc = "rehandled_scored"
  /\ game.turn # entry.turn
  /\ game.history # entry.history
  /\ rootScore # 0

\* The king-safety term of one side as C14 words it, the back rank of the
\* side being the row backRow of the board view: 0 when the king is absent
\* or off that row; otherwise, over the files next to and of the king that
\* are on the board, 20 for each friendly pawn one row toward the centre
\* and -25 for each empty square there.
C14_Side(board, color, backRow) ==
  LET k == KingPos(board, color)
      shieldRow == IF backRow = 7 THEN 6 ELSE 1
      files == {f \in 0..7 : f >= Col(k) - 1 /\ f <= Col(k) + 1}
  IN IF k = -1 \/ Row(k) # backRow THEN 0
     ELSE 20 * Cardinality({f \in files : board[Sq(shieldRow, f)] = Pc("p", color)})
          - 25 * Cardinality({f \in files : board[Sq(shieldRow, f)] = Empty})

\* What evaluateBoard returned, less the terms of its steps 1 to 5.
C14_Returned ==
  rootScore
  - SumFn([i \in Squares |-> PieceTerm(game.board, Row(i), Col(i))], 0)
  - SumFn([i \in Squares |-> RookFileTerm(game.board, Row(i), Col(i))], 0)
  - BishopPairTerm(game.board)

\* C14 as stated: the back rank is rank 8 (row 0) for White and rank 1
\* (row 7) for Black.
C14_BackRankAsStated ==
  pc = "scored" =>
    C14_Returned = C14_Side(game.board, "w", 0) - C14_Side(game.board, "b", 7)

\* C14, amended: the king-safety term is computed only when the king
\* stands on its own back rank, which is rank 1 for White (row 7 of the
\* board view) and rank 8 for Black (row 0); for each on-board file from
\* the king's file - 1 to + 1 the square one rank toward the centre adds
\* 20 if it holds a friendly pawn, -25 if it is empty and 0 otherwise; a
\* king off its back rank contributes 0; White's term is added and
\* Black's subtracted.
C14_KingSafety ==
  pc = "scored" =>
    C14_Returned = C14_Side(game.board, "w", 7) - C14_Side(game.board, "b", 0)

\* White's king on g1 behind a pawn on g2 and two empty squares, Black's
\* king on g8 behind a piece of its own that is no pawn.
C14_Witness ==
  /\ pc = "scored"
  /\ game.board[At(7,1)] = Pc("k", "w") /\ game.board[At(7,2)] = Pc("p", "w")
  /\ game.board[At(7,8)] = Pc("k", "b") /\ game.board[At(7,7)] = Pc("n", "b")
  /\ C14_Side(game.board, "w", 7) = -30
  /\ C14_Side(game.board, "b", 0) = -50

\* A king off its back rank was evaluated.
C14_WitnessOff ==
  /\ pc = "scored"
  /\ KingPos(game.board, "w") = At(5,2)
  /\ C14_Returned = 0

\* C15: the value Black's piece-square lookup (entry 63 - (8r + c)) reads
\* for a black piece on (r, c) equals the value a white piece of the same
\* type receives on the vertically mirrored square (row 7 - r, column c).
C15_VerticalMirror ==
  pc = "scored" =>
    \A i \in Squares :
      game.board[i].color = "b" =>
        pstVal(game.board[i], i)
          = pstVal(Pc(game.board[i].type, "w"), Sq(7 - Row(i), Col(i)))

\* The contributions of C16, written from its wording.
C16_Material == [p |-> 100, n |-> 320, b |-> 330, r |-> 500, q |-> 900, k |-> 20000]

\* Knight: the on-board offset squares not holding a friendly piece.
C16_KnightMobility(board, i, color) ==
  Cardinality({j \in Squares :
                 /\ {Abs(Row(j) - Row(i)), Abs(Col(j) - Col(i))} = {1, 2}
                 /\ board[j].color # color})

\* Slider, one direction: every empty square up to the first occupied
\* square or the edge, plus one if that square holds an enemy piece.
C16_SlideMobility(board, i, d, color) ==
  Cardinality({n \in 1..7 :
                 /\ isValidSquare(Row(i) + n * d[1], Col(i) + n * d[2])
                 /\ \A k \in 1..(n - 1) :
                      board[Sq(Row(i) + k * d[1], Col(i) + k * d[2])] = Empty
                 /\ board[Sq(Row(i) + n * d[1], Col(i) + n * d[2])].color # color})

C16_Straight == {<<1, 0>>, <<-1, 0>>, <<0, 1>>, <<0, -1>>}
C16_Diagonal == {<<1, 1>>, <<1, -1>>, <<-1, 1>>, <<-1, -1>>}

RECURSIVE C16_SumOver(_, _, _, _)
C16_SumOver(board, i, ds, color) ==
  IF ds = {} THEN 0
  ELSE LET d == CHOOSE x \in ds : TRUE
       IN C16_SlideMobility(board, i, d, color)
          + C16_SumOver(board, i, ds \ {d}, color)

C16_Mobility(board, i) ==
  LET piece == board[i] IN
  CASE piece.type = "n" -> C16_KnightMobility(board, i, piece.color)
    [] piece.type = "r" -> C16_SumOver(board, i, C16_Straight, piece.color)
    [] piece.type = "b" -> C16_SumOver(board, i, C16_Diagonal, piece.color)
    [] piece.type = "q" ->
         C16_SumOver(board, i, C16_Straight \cup C16_Diagonal, piece.color)
    [] OTHER -> 0

\* Per rook whose file holds no pawn of its own colour: 25 if the file
\* holds no enemy pawn either, 10 otherwise.
C16_RookFile(board, i) ==
  LET piece == board[i]
      pawnOn(color) == \E r \in 0..7 : board[Sq(r, Col(i))] = Pc("p", color)
  IN IF piece.type # "r" \/ pawnOn(piece.color) THEN 0
     ELSE IF pawnOn(Other(piece.color)) THEN 10 ELSE 25

C16_BishopPair(board, color) ==
  IF Cardinality({i \in Squares : board[i] = Pc("b", color)}) >= 2 THEN 50 ELSE 0

\* The signed contribution of the piece on square i.
C16_Piece(board, i) ==
  LET piece == board[i]
      sign == IF piece.color = "w" THEN 1 ELSE -1
  IN IF piece = Empty THEN 0
     ELSE sign * (C16_Material[piece.type] + pstVal(piece, i)
                  + 5 * C16_Mobility(board, i) + C16_RookFile(board, i))

C16_Sum(board) ==
  SumFn([i \in Squares |-> C16_Piece(board, i)], 0)
  + C16_BishopPair(board, "w") - C16_BishopPair(board, "b")
  + C14_Side(board, "w", 7) - C14_Side(board, "b", 0)

\* C16: evaluateBoard equals the unclamped sum, positive for White and
\* negative for Black, of material, piece-square value, 5 times the
\* mobility of knights and sliders, the rook file bonus of 25 or 10, 50 for
\* a pair of bishops and the king-safety term.
C16_SumOfTerms ==
  pc = "scored" => rootScore = C16_Sum(game.board)

\* A white rook on g4 faces a black pawn on g7: two empty squares and a
\* capture up the file, which is half open.
C16_Witness ==
  /\ pc = "scored"
  /\ game.board[At(7,4)] = Pc("r", "w") /\ game.board[At(7,7)] = Pc("p", "b")
  /\ C16_SumOver(game.board, At(7,4), {<<-1, 0>>}, "w") = 3
  /\ C16_RookFile(game.board, At(7,4)) = 10
  /\ rootScore = C16_Sum(game.board)

\* Two bishops of a side and all thirty-two pieces were summed.
C16_WitnessFull ==
  /\ pc = "scored"
  /\ Cardinality({i \in Squares : game.board[i] # Empty}) = 32
  /\ C16_BishopPair(game.board, "w") = 50

\* ------------------------------------------------------------------------
\* The move-ordering heuristic on its own: moves as the rules engine can
\* report them are scored
\* ------------------------------------------------------------------------

PieceTypes == {"p", "n", "b", "r", "q", "k"}

Markers == {<< >>, <<"+">>, <<"#">>}

\* Ordinary moves and captures of a piece, promotions of a pawn included.
PlainMoves ==
  {[color |-> "w", from |-> At(4,7), to |-> At(5,8), piece |-> t, captured |-> c,
    promotion |-> pr,
    flags |-> (IF c # "-" THEN <<"c">> ELSE <<"n">>) \o (IF pr # "-" THEN <<"p">> ELSE << >>),
    san |-> (IF t # "p" THEN <<PieceChar[t]>> ELSE IF c # "-" THEN <<"d">> ELSE << >>)
            \o (IF c # "-" THEN <<"x">> ELSE << >>)
            \o <<"e", "8">>
            \o (IF pr # "-" THEN <<"=", PieceChar[pr]>> ELSE << >>)
            \o mk] :
     t \in PieceTypes, c \in {"-", "p", "n", "b", "r", "q"},
     pr \in {"-", "q", "r", "b", "n"}, mk \in Markers}

\* Castling on either side.
CastlingMoves ==
  {[color |-> "w", from |-> At(5,1), to |-> (IF side = "k" THEN At(7,1) ELSE At(3,1)),
    piece |-> "k", captured |-> "-", promotion |-> "-", flags |-> <<side>>,
    san |-> (IF side = "k" THEN <<"O", "-", "O">> ELSE <<"O", "-", "O", "-", "O">>) \o mk] :
     side \in {"k", "q"}, mk \in Markers}

\* En passant captures and two-square pawn advances.
PawnSpecialMoves ==
  {[color |-> "w", from |-> At(4,5), to |-> At(5,6), piece |-> "p", captured |-> "p",
    promotion |-> "-", flags |-> <<"e">>, san |-> <<"d", "x", "e", "6">> \o mk] :
     mk \in Markers}
  \cup {[color |-> "w", from |-> At(5,2), to |-> At(5,4), piece |-> "p", captured |-> "-",
         promotion |-> "-", flags |-> <<"b">>, san |-> <<"e", "4">> \o mk] : mk \in Markers}

ScoreMoves ==
  {m \in PlainMoves : m.promotion # "-" => m.piece = "p"}
  \cup CastlingMoves \cup PawnSpecialMoves

InitScore ==
  /\ result \in ScoreMoves
  /\ game = StartingPosition
  /\ difficulty = "-"
  /\ possibleMoves = << >>
  /\ pc = "unscored"
  /\ stack = << >>
  /\ ret = NoResult
  /\ rootScore = 0
  /\ rnd = -1
  /\ entry = game
  /\ applied = FALSE
  /\ undone = FALSE
  /\ cuts = FALSE
  /\ AppConstructed

\* A call of getMoveScore(move).
ScoreMove ==
  /\ pc = "unscored"
  /\ rootScore' = getMoveScore(result)
  /\ pc' = "move_scored"
  /\ UNCHANGED appVars
  /\ UNCHANGED <<game, difficulty, possibleMoves, stack, ret, result, rnd,
                 entry, applied, undone, cuts>>

NextScore == ScoreMove

SpecScore == InitScore /\ [][NextScore]_vars

C8_Value(t) ==
  CASE t = "p" -> 100 [] t = "n" -> 320 [] t = "b" -> 330
    [] t = "r" -> 500 [] t = "q" -> 900 [] t = "k" -> 20000

C8_Sum(m) ==
  (IF m.captured # "-" THEN 10000 + 10 * C8_Value(m.captured) - C8_Value(m.piece) ELSE 0)
  + (IF m.promotion = "q" THEN 9000 ELSE IF m.promotion # "-" THEN 4000 ELSE 0)
  + (IF \E i \in DOMAIN m.san : m.san[i] \in {"+", "#"} THEN 2000 ELSE 0)
  + (IF \E i \in DOMAIN m.flags : m.flags[i] \in {"k", "q"} THEN 500 ELSE 0)

C8_Bare(m) ==
  /\ m.promotion = "-"
  /\ \A i \in DOMAIN m.san : m.san[i] \notin {"+", "#"}
  /\ \A i \in DOMAIN m.flags : m.flags[i] \notin {"k", "q"}

\* C8: getMoveScore is the sum of the capture, promotion, check and
\* castling terms, 0 for a move with none of them; a pawn taking a queen
\* scores 18900 and a queen taking a pawn 10100.
C8_ScoreIsSum ==
  pc = "move_scored" =>
    /\ rootScore = C8_Sum(result)
    /\ (C8_Bare(result) /\ result.captured = "-") => rootScore = 0
    /\ (C8_Bare(result) /\ result.piece = "p" /\ result.captured = "q") => rootScore = 18900
    /\ (C8_Bare(result) /\ result.piece = "q" /\ result.captured = "p") => rootScore = 10100

\* A pawn took a rook, promoted to a queen and gave check.
C8_Witness ==
  /\ pc = "move_scored"
  /\ result.piece = "p" /\ result.captured = "r" /\ result.promotion = "q"
  /\ includes(result.san, "+")
  /\ rootScore = 10000 + 5000 - 100 + 9000 + 2000

\* A capture that carries no promotion, check or castling bonus.
C17_BareCapture(m) == C8_Bare(m) /\ m.captured # "-"

\* C17: among captures without promotion, check or castling bonus, and for
\* every aggressor including the king, a capture of a strictly more
\* valuable victim scores strictly higher whatever the aggressors are, for
\* equal victims the less valuable aggressor scores strictly higher, and
\* every capture scores strictly higher than a quiet move (score 0).
C17_MvvLva ==
  (pc = "move_scored" /\ C17_BareCapture(result)) =>
    /\ rootScore > 0
    /\ \A m \in ScoreMoves :
         C17_BareCapture(m) =>
           /\ C8_Value(result.captured) > C8_Value(m.captured)
                => rootScore > getMoveScore(m)
           /\ (result.captured = m.captured
                /\ C8_Value(result.piece) < C8_Value(m.piece))
                => rootScore > getMoveScore(m)

\* ------------------------------------------------------------------------
\* The search with the sorted order given up: at every node the loop takes
\* the remaining moves in any order
\* ------------------------------------------------------------------------

\* White: Ka1 Pe4, Black: Kh8 Pe5.  The pawns block each other.
TinyBlocked ==
  NewGame({<<At(1,1), "k", "w">>, <<At(5,4), "p", "w">>,
           <<At(8,8), "k", "b">>, <<At(5,5), "p", "b">>}, "w")

\* White: Kh1 Pg5, Black: Ka8 Ph6, Black to move; the pawns can take
\* each other.
TinyCapture ==
  NewGame({<<At(8,1), "k", "w">>, <<At(7,5), "p", "w">>,
           <<At(1,8), "k", "b">>, <<At(8,6), "p", "b">>}, "b")

\* White: Kh1 Ph2 Pa2, Black: Ka8 Ph3.  The h-pawns block each other and
\* the white king has the single move Kg1.
TinyCorner ==
  NewGame({<<At(8,1), "k", "w">>, <<At(8,2), "p", "w">>, <<At(1,2), "p", "w">>,
           <<At(1,8), "k", "b">>, <<At(8,3), "p", "b">>}, "w")

\* Number of (position, difficulty) cases searched in every order.
NumTiny == 3

TinyCase(k) ==
  CASE k = 1 -> <<TinyCorner, "Hard">>
    [] k = 2 -> <<TinyCapture, "Medium">>
    [] k = 3 -> <<TinyBlocked, "Medium">>
    [] OTHER -> <<TinyCorner, "Medium">>

InitAnyOrder ==
  /\ \E k \in 1..NumTiny : game = TinyCase(k)[1] /\ difficulty = TinyCase(k)[2]
  /\ possibleMoves = << >>
  /\ pc = "idle"
  /\ stack = << >>
  /\ ret = NoResult
  /\ result = Null
  /\ rootScore = 0
  /\ rnd = -1
  /\ entry = game
  /\ applied = FALSE
  /\ undone = FALSE
  /\ cuts = FALSE
  /\ AppConstructed

\* minimax: the loop takes any of the remaining moves, applies it and
\* recurses.
MinimaxApplyAny ==
  /\ pc = "loop"
  /\ \E i \in 1..Len(Top.moves) : ApplyMove(i)

NextAnyOrder ==
  \/ GetBestMove
  \/ MinimaxBase
  \/ MinimaxExpand
  \/ MinimaxApplyAny
  \/ MinimaxExhausted
  \/ MinimaxReturn
  \/ MinimaxFold
  \/ GetBestMoveReturn

SpecAnyOrder == InitAnyOrder /\ [][NextAnyOrder]_vars

\* C9: whatever order the moves of each node are taken in, the root call
\* returns the score of the exhaustive minimax.
C9_OrderIndependent ==
  Searched =>
    rootScore = Exhaustive(entry, SearchDepth(difficulty), entry.turn = "w").bestScore

\* A search that took some node's moves out of the sorted order, and
\* pruned, has returned.
C9_Witness ==
  /\ Searched
  /\ cuts
  /\ ret.bestMove # Null
  /\ ret.bestMove # Exhaustive(entry, SearchDepth(difficulty), entry.turn = "w").bestMove

\* ------------------------------------------------------------------------
\* App: the application component.  An event handler or timer callback,
\* the re-render it causes and the effects that run after it are one step.
\* ------------------------------------------------------------------------

\* game.fen() and new Chess(fen): the placement and the side to move are
\* kept, the history is not part of a FEN.
fen(g) == [board |-> g.board, turn |-> g.turn]

load(f) == [board |-> f.board, turn |-> f.turn, history |-> << >>]

\* game.isDraw(): stalemate or insufficient material (no position of the
\* model reaches the fifty-move or repetition limits).
isDraw(g) ==
  \/ (LegalMoves(g.board, g.turn) = << >> /\ ~isKingAttacked(g.board, g.turn))
  \/ isInsufficientMaterial(g.board)

\* The game-status effect: gameStatus as set after a render with game g.
gameStatus(g) ==
  IF isCheckmate(g) THEN "Checkmate"
  ELSE IF isDraw(g) THEN "Draw"
  ELSE "Active"

\* safeGameMutate(modify): the copy of the game, rebuilt from its FEN, that
\* modify is applied to and that becomes the new game.
safeGameMutate(g) == load(fen(g))

\* g.move(m) inside try/catch: a move that throws leaves the game as it is.
tryMove(g, m) == IF moveThrows(g, m) THEN g ELSE move(g, m)

\* The AI move effect run after a render in which one of game, difficulty,
\* playerColor, pendingPromotion has changed: the timer of the previous run
\* has been cleared by its cleanup; thinking is the flag as the handler
\* left it.
aiMoveEffect(g, d, colour, pending, thinking) ==
  IF isGameOver(g) \/ isDraw(g) \/ pending # Null
  THEN [isThinking |-> thinking, aiTimer |-> Null]
  ELSE IF turn(g) # colour
  THEN [isThinking |-> TRUE, aiTimer |-> [game |-> g, difficulty |-> d]]
  ELSE [isThinking |-> thinking, aiTimer |-> Null]

\* disabled={isThinking || game.history().length === 0 || !!pendingPromotion}
disabled == isThinking \/ Len(game.history) = 0 \/ pendingPromotion # Null

\* Bounds on what the player does in one run.
MoveChoices == 1
AiChoices == 1
MaxUserActions == 2
NumAppStart == 2

\* The moves the player may try in position g: the first legal moves in
\* generation order, and every promotion.
PlayerInputs(g) ==
  LET ms == LegalMoves(g.board, g.turn)
  IN {WithSan(g.board, ms[i]) :
        i \in {j \in 1..Len(ms) : j <= MoveChoices \/ ms[j].promotion # "-"}}

\* The random draws considered for the AI's move.
AiDraws == {(j * RandomSteps) \div AiChoices : j \in 0..(AiChoices - 1)}

\* The move getBestMove(game, difficulty) hands to the timer callback:
\* null without legal moves; on Easy the move at the drawn index; on
\* Medium and Hard a legal move (C3), which one being immaterial to the
\* component's state, so that it is drawn in the same way.
appBestMove(g, d, k) ==
  LET possible == LegalMoves(g.board, g.turn)
  IN IF Len(possible) = 0 THEN Null
     ELSE WithSan(g.board, possible[randomIndex(k, Len(possible)) + 1])

\* The games a run starts from: the game as constructed, or a game as an
\* accepted takeback has left it (the player to move, no history).
AppStart(k) ==
  CASE k = 1 -> StartingPosition
    [] k = 2 -> Promotion
    [] OTHER -> MateOrKnight

InitApp ==
  /\ \E k \in 1..NumAppStart : game = AppStart(k)
  /\ difficulty = "Medium"
  /\ possibleMoves = << >>
  /\ pc = "app"
  /\ stack = << >>
  /\ ret = NoResult
  /\ result = Null
  /\ rootScore = 0
  /\ rnd = -1
  /\ entry = game
  /\ applied = FALSE
  /\ undone = FALSE
  /\ cuts = FALSE
  /\ AppConstructed

\* The render with game g after a handler, and the effects after it, a
\* dependency of the AI move effect having changed.
AfterRender(g, d, colour, pending, thinking) ==
  LET e == aiMoveEffect(g, d, colour, pending, thinking)
  IN game' = g /\ isThinking' = e.isThinking /\ aiTimer' = e.aiTimer

\* The player has moved from the position of game.
PlayerMoved == [track EXCEPT !.before = fen(game), !.replies = 0, !.actions = @ + 1]

\* onDrop: a piece is dropped on the board, which the promotion dialog and
\* the game-over modal cover while they are shown.
OnDrop ==
  /\ pc = "app"
  /\ pendingPromotion = Null
  /\ track.actions < MaxUserActions
  /\ turn(game) = playerColor /\ gameStatus(game) = "Active"
  /\ \E m \in PlayerInputs(game) :
       IF m.promotion # "-"
       THEN /\ pendingPromotion' = [from |-> m.from, to |-> m.to]
            /\ AfterRender(game, difficulty, playerColor,
                           [from |-> m.from, to |-> m.to], isThinking)
            /\ UNCHANGED track
       ELSE /\ AfterRender(tryMove(load(fen(game)), m), difficulty, playerColor,
                           pendingPromotion, isThinking)
            /\ track' = PlayerMoved
            /\ UNCHANGED pendingPromotion
  /\ UNCHANGED <<difficulty, playerColor, takebackStatus, takebackTimers, declineTimers>>
  /\ UNCHANGED searchVars

\* onManualMove: a move is typed into the input, which is disabled by
\* the disabled prop.
OnManualMove ==
  /\ pc = "app"
  /\ ~disabled
  /\ track.actions < MaxUserActions
  /\ turn(game) = playerColor /\ gameStatus(game) = "Active"
  /\ \E m \in PlayerInputs(game) :
       AfterRender(tryMove(load(fen(game)), m), difficulty, playerColor,
                   pendingPromotion, isThinking)
  /\ track' = PlayerMoved
  /\ UNCHANGED <<difficulty, playerColor, pendingPromotion, takebackStatus,
                 takebackTimers, declineTimers>>
  /\ UNCHANGED searchVars

\* onPromotionSelect(piece).
OnPromotionSelect ==
  /\ pc = "app"
  /\ pendingPromotion # Null
  /\ \E piece \in {"q", "r", "b", "n"} :
       LET wanted == {m \in Range(moves(game)) :
                        /\ m.from = pendingPromotion.from
                        /\ m.to = pendingPromotion.to
                        /\ m.promotion = piece}
           update == safeGameMutate(game)
       IN /\ AfterRender(IF wanted = {} THEN update
                         ELSE tryMove(update, CHOOSE m \in wanted : TRUE),
                         difficulty, playerColor, Null, isThinking)
          /\ track' = IF wanted = {} THEN track ELSE PlayerMoved
  /\ pendingPromotion' = Null
  /\ UNCHANGED <<difficulty, playerColor, takebackStatus, takebackTimers, declineTimers>>
  /\ UNCHANGED searchVars

\* resetGame, the New Game and Play Again buttons.
ResetGame ==
  /\ pc = "app"
  /\ pendingPromotion' = Null
  /\ takebackStatus' = "idle"
  /\ AfterRender(StartingPosition, difficulty, playerColor, Null, FALSE)
  /\ track' = [track EXCEPT !.before = Null, !.replies = 0]
  /\ UNCHANGED <<difficulty, playerColor, takebackTimers, declineTimers>>
  /\ UNCHANGED searchVars

\* setDifficulty(level), the AI Level buttons.
SetDifficulty ==
  /\ pc = "app"
  /\ \E level \in Difficulties \ {difficulty} :
       /\ difficulty' = level
       /\ AfterRender(game, level, playerColor, pendingPromotion, isThinking)
  /\ UNCHANGED <<playerColor, pendingPromotion, takebackStatus,
                 takebackTimers, declineTimers, track>>
  /\ UNCHANGED searchVars

\* setPlayerColor(c), the Play As buttons.
SetPlayerColor ==
  /\ pc = "app"
  /\ track.actions < MaxUserActions
  /\ playerColor' = Other(playerColor)
  /\ AfterRender(game, difficulty, Other(playerColor), pendingPromotion, isThinking)
  /\ track' = [track EXCEPT !.actions = @ + 1]
  /\ UNCHANGED <<difficulty, pendingPromotion, takebackStatus,
                 takebackTimers, declineTimers>>
  /\ UNCHANGED searchVars

\* requestTakeback, the Takeback button: the 800 ms timer is started with
\* the difficulty of this render.
RequestTakeback ==
  /\ pc = "app"
  /\ ~disabled /\ takebackStatus = "idle"
  /\ track.actions < MaxUserActions
  /\ takebackStatus' = "requesting"
  /\ takebackTimers' = Append(takebackTimers, difficulty)
  /\ track' = [track EXCEPT !.actions = @ + 1]
  /\ UNCHANGED <<game, difficulty, playerColor, isThinking, pendingPromotion,
                 aiTimer, declineTimers>>
  /\ UNCHANGED searchVars

\* The callback of the 300 ms timer of the AI move effect.
AiTimerFires ==
  /\ pc = "app"
  /\ aiTimer # Null
  /\ \E k \in AiDraws :
       LET bestMove == appBestMove(aiTimer.game, aiTimer.difficulty, k)
       IN IF bestMove # Null
          THEN /\ AfterRender(tryMove(safeGameMutate(game), bestMove), difficulty,
                              playerColor, pendingPromotion, FALSE)
               /\ track' = [track EXCEPT !.replies = IF @ < 2 THEN @ + 1 ELSE @]
          ELSE /\ isThinking' = FALSE
               /\ aiTimer' = Null
               /\ UNCHANGED <<game, track>>
  /\ UNCHANGED <<difficulty, playerColor, pendingPromotion, takebackStatus,
                 takebackTimers, declineTimers>>
  /\ UNCHANGED searchVars

\* The callback of the 800 ms timer of requestTakeback; on Hard the
\* request is declined when Math.random() < 0.3.
TakebackTimerFires ==
  /\ pc = "app"
  /\ takebackTimers # << >>
  /\ takebackTimers' = Tail(takebackTimers)
  /\ \E shouldDecline \in (IF Head(takebackTimers) = "Hard" THEN BOOLEAN ELSE {FALSE}) :
       IF shouldDecline
       THEN /\ takebackStatus' = "declined"
            /\ declineTimers' = declineTimers + 1
            /\ UNCHANGED <<game, isThinking, pendingPromotion, aiTimer, track>>
       ELSE /\ AfterRender(undo(undo(safeGameMutate(game))), difficulty,
                           playerColor, Null, isThinking)
            /\ pendingPromotion' = Null
            /\ takebackStatus' = "idle"
            /\ track' = [track EXCEPT !.before = Null, !.replies = 0]
            /\ UNCHANGED declineTimers
  /\ UNCHANGED <<difficulty, playerColor>>
  /\ UNCHANGED searchVars

\* The callback of the 2000 ms timer started by a decline.
DeclineTimerFires ==
  /\ pc = "app"
  /\ declineTimers > 0
  /\ declineTimers' = declineTimers - 1
  /\ takebackStatus' = "idle"
  /\ UNCHANGED <<game, difficulty, playerColor, isThinking, pendingPromotion,
                 aiTimer, takebackTimers, track>>
  /\ UNCHANGED searchVars

NextApp ==
  \/ OnDrop
  \/ OnManualMove
  \/ OnPromotionSelect
  \/ ResetGame
  \/ SetDifficulty
  \/ SetPlayerColor
  \/ RequestTakeback
  \/ AiTimerFires
  \/ TakebackTimerFires
  \/ DeclineTimerFires

SpecApp == InitApp /\ [][NextApp]_vars

\* A step in which a takeback request is accepted: a decline sets the
\* status to declined, an acceptance sets it to idle.
C18_Accepted ==
  /\ Len(takebackTimers') < Len(takebackTimers)
  /\ takebackStatus' = "idle"

\* C18: an accepted takeback undoes the AI's last move and the player's
\* last move: where the player has moved and the AI has replied, the
\* position after the acceptance is the position that stood before the
\* player's move.
C18_TakebackRestores ==
  [][(C18_Accepted /\ track.before # Null /\ track.replies = 1)
       => fen(game') = track.before]_vars

\* C19: the 'AI thinking' flag is set only while an AI move timer is
\* pending, so that the timer's callback is there to clear it without a
\* further user action.
C19_ThinkingOnlyWhilePending == isThinking => aiTimer # Null

====
